---------------------------- MODULE Spec2Model ----------------------------
(***************************************************************************)
(* Model of event-parsing/process_any.py, the batch pipeline that reads a  *)
(* radio trace and a packet list, merges them into one time-ordered event  *)
(* sequence, segments that sequence into Transitions and exports them.     *)
(*                                                                         *)
(* Python's None is the string NONE ("<None>"); str(None) is "None", which *)
(* is also the sentinel state of the first Transition.  An absent packet   *)
(* time is NoTime.  An optional number is Nothing (None) or Some(v).       *)
(*         Secondary attributes are not modelled.  Fields named g_* are    *)
(* history fields the code does not have.  A float is the integer it       *)
(* stands for, a quotient of two floats the pair <<dividend, divisor>>.    *)
(*                                                                         *)
(* The statistics functions of event-parsing/robustnetLib.py and           *)
(* quartiles() of mobiperf-measurement/parse_mobiperf_measurements.py are  *)
(* operators; a call of one of them is the field call, its value result.   *)
(***************************************************************************)
EXTENDS Integers, Sequences, FiniteSets, TLC

VARIABLES
    traceFile,        \* sys.argv[1]: the lines of the trace
    packetFile,       \* sys.argv[2]: pa.all_packets (<<>> when not given)
    featureFiles,     \* sys.argv[3] + "_" + suffix + ".txt": suffix -> rows
    pc,               \* position of the script
    err,              \* the exception that ended the run, or NONE
    lineNo,           \* lines of the trace read so far
    current_event,    \* Event.current_event
    last_state,       \* Event.last_state
    distinct_events,  \* Event.distinct_events
    all_events,       \* Event.all_events: time -> list of events
    sig,              \* Event.RSSI, Event.power_ratio
    sorted_events,    \* the merged, forward-filled sequence
    evNo,             \* events of sorted_events segmented so far
    transition,       \* the open Transition
    transition_dict,  \* name -> list of filed Transitions
    todo,             \* output loop: names not yet visited
    g_discovered,     \* history: number of events put into all_events
    g_closed,         \* history: every Transition closed and finalized
    g_run,            \* history: 1 in the first run, 2 in the re-run
    g_firstFiles,     \* history: featureFiles at the end of the first run
    outRoot,          \* TRUE when sys.argv[3] is given (transition_file)
    call,             \* a call of a statistics function: its name and arguments
    result            \* the value the call returned

vars == <<traceFile, packetFile, featureFiles, pc, err, lineNo, current_event,
          last_state, distinct_events, all_events, sig, sorted_events, evNo,
          transition, transition_dict, todo, g_discovered, g_closed, g_run,
          g_firstFiles, outRoot, call, result>>

---------------------------------------------------------------------------
(* Bounds of the inputs                                                    *)

MaxRecords == 4
MaxPackets == 1
MaxPacketList == 2
MaxTime == 1
MaxSegRecords == 6
MaxMid == 2
MaxStat == 3
MaxList == 8
MaxStamps == 2

NONE == "<None>"
NoTime == -1
Nothing == <<>>
Some(v) == <<v>>

str(x) == IF x = NONE THEN "None" ELSE x

Times == 0..MaxTime

\* Event types of trace records; the two state-change types are the ones
\* __getStateChange looks for.
LTE_STATE_CHANGE == "EVENT_LTE_RRC_STATE_CHANGE"
WCDMA_STATE == "EVENT_WCDMA_RRC_STATE"
RLC_CONFIG == "EVENT_WCDMA_RLC_CONFIG"
L1_STATE == "EVENT_WCDMA_L1_STATE"
PacketTypes == {"PACKET_SENT", "PACKET_RCV", "PACKET_OTHER"}

States == {"CELL_DCH", "CELL_FACH"}
AllStates == States \cup {"CELL_PCH"}
LteStates == {"Connected", "Closing", "Idle Camped"}
MAC_TIMER == "EVENT_LTE_MAC_TIMER"
RRC_TIMER_STATUS == "EVENT_LTE_RRC_TIMER_STATUS"
STATE_CHANGE_TRIGGER == "EVENT_LTE_RRC_STATE_CHANGE_TRIGGER"

ip == "141.212.113.208"
Addresses == {ip, "10.0.0.1"}

---------------------------------------------------------------------------
(* Input lines and packets                                                 *)

\* A line that starts with "2013": its type token (NONE when __getEvent
\* finds none) and the value of its H:MM:SS.mmm substring.
DateLine(ev, t) == [kind |-> "date", ev |-> ev, t |-> t, prev |-> NONE, new |-> NONE]
\* "Payload String = ... RRC State = <new>"
LtePayload(s) == [kind |-> "lte", ev |-> NONE, t |-> 0, prev |-> NONE, new |-> s]
\* "Payload String = Previous state: <prev>, New state: <new>"
WcdmaPayload(p, s) == [kind |-> "wcdma", ev |-> NONE, t |-> 0, prev |-> p, new |-> s]

\* The records of a trace, as they are at time 0: a date line without a type
\* token, one of a plain event, an LTE state change with its payload line, a
\* WCDMA state change with its payload line
PlainRecords(types) == {<<DateLine(ev, 0)>> : ev \in types}
LteRecords(states) == {<<DateLine(LTE_STATE_CHANGE, 0), LtePayload(s)>> : s \in states}
WcdmaRecords(states) ==
    {<<DateLine(WCDMA_STATE, 0), WcdmaPayload(x[1], x[2])>> :
       x \in {y \in states \X states : y[1] # y[2]}}

At(record, t) == [record EXCEPT ![1].t = t]

\* A line with the matches of the time pattern it holds, each given by its
\* groups h, m, s and ms: a date line when ev is a type or starts is TRUE,
\* else a line of text
StampedLine(starts, ev, stamps) ==
    [kind |-> IF starts THEN "date" ELSE "text", ev |-> ev, t |-> 0, prev |-> NONE,
     new |-> NONE, stamps |-> stamps]

RECURSIVE SumOfValues(_)
SumOfValues(l) == IF l = <<>> THEN 0 ELSE Head(l) + SumOfValues(Tail(l))

\* A line of n fields separated by "|"; cols gives the text of the fields
\* line[2], line[3], line[4], line[6] and line[7].  The line starts with no
\* date and holds no time.
SignalLine(n, cols) == [kind |-> "signal", ev |-> NONE, t |-> 0, prev |-> NONE, new |-> NONE,
                        n |-> n, cols |-> cols]

\* float(): the texts that are numbers, and their values; "x" is not a number
FloatOf == ("1" :> 1) @@ ("-1" :> -1) @@ ("0" :> 0) @@ ("-70" :> -70) @@ ("-90" :> -90)
             @@ ("-10" :> -10)
Numeric(text) == text \in DOMAIN FloatOf
float(text) == FloatOf[text]

\* The traces of up to n records whose times go from t0 up to MaxTime
RECURSIVE TracesFrom(_, _, _)
TracesFrom(n, t0, records) ==
    IF n = 0 THEN {<<>>}
    ELSE {<<>>} \cup UNION {{At(r, t) \o rest : r \in records,
                                               rest \in TracesFrom(n - 1, t, records)} :
                            t \in t0..MaxTime}

Packet(t, c, d) == [time |-> t, is_candidate |-> c, dst |-> d]
Packets == {Packet(t, c, d) : t \in Times \cup {NoTime}, c \in BOOLEAN, d \in Addresses}

SeqsUpTo(S, n) == UNION {[1..k -> S] : k \in 0..n}

---------------------------------------------------------------------------
(* class Event                                                             *)

\* Event.__init__
NewEvent == [g_id |-> 0, time |-> 0, event |-> NONE, before_state |-> NONE,
             after_state |-> NONE, RSSI |-> sig.RSSI, RSRP |-> Nothing, RSRQ |-> Nothing,
             power_ratio |-> sig.power_ratio]

NoEvent == [g_id |-> 0, time |-> 0, event |-> "<no current_event>", before_state |-> NONE,
            after_state |-> NONE, RSSI |-> Nothing, RSRP |-> Nothing, RSRQ |-> Nothing,
            power_ratio |-> Nothing]

\* Event.__getEvent
getEvent(e, line) == [e EXCEPT !.event = line.ev]

\* The value of a match of (\d+):(\d+):(\d+)[.](\d+), from its four groups
Millis(match) ==
    match.ms + match.s * 1000 + match.m * 60 * 1000 + match.h * 3600 * 1000

\* The values of the matches of a line, from left to right.  A line that has
\* no field stamps has the one match whose value is its field t.
MatchValues(line) ==
    IF "stamps" \in DOMAIN line
    THEN [i \in DOMAIN line.stamps |-> Millis(line.stamps[i])]
    ELSE <<line.t>>

\* Event.__getTime that adds every match of the line
getTimeOfAll(e, line) == [e EXCEPT !.time = @ + SumOfValues(MatchValues(line))]

\* Event.__getTime: re.search gives the leftmost match of the line
getTime(e, line) ==
    IF MatchValues(line) = <<>> THEN e
    ELSE [e EXCEPT !.time = @ + MatchValues(line)[1]]

\* Event.__getStateChange without the test last_state == after_state
getStateChangeUntested(e, line, last) ==
    IF e.event = LTE_STATE_CHANGE /\ line.kind = "lte"
    THEN << [e EXCEPT !.after_state = line.new, !.before_state = last], line.new >>
    ELSE IF e.event = WCDMA_STATE /\ line.kind = "wcdma"
    THEN << [e EXCEPT !.before_state = line.prev, !.after_state = line.new], line.new >>
    ELSE << e, last >>

\* Event.__getStateChange: <<the event, Event.last_state>> after the line
getStateChange(e, line, last) ==
    IF e.event = LTE_STATE_CHANGE /\ line.kind = "lte"
    THEN IF last = line.new
         THEN << [e EXCEPT !.after_state = line.new], last >>
         ELSE << [e EXCEPT !.after_state = line.new, !.before_state = last], line.new >>
    ELSE IF e.event = WCDMA_STATE /\ line.kind = "wcdma"
    THEN << [e EXCEPT !.before_state = line.prev, !.after_state = line.new], line.new >>
    ELSE << e, last >>

\* The columns of RSSI, RSRP and RSRQ in the layout chosen by line[2]
Layout(cols) == IF float(cols[2]) >= 0 THEN <<3, 4, 7>> ELSE <<2, 3, 6>>

\* Event.__getSignalStrengths: <<the event, Event.RSSI and Event.power_ratio>>
\* after the line.  An exception (float() of a text that is no number, the
\* division by RSRQ = 0.0) ends the method where it is raised; what was
\* assigned before stays.  A line of another kind has fewer than 10 fields.
getSignalStrengths(e, line, sg) ==
    IF line.kind # "signal" \/ line.n < 10 THEN <<e, sg>>
    ELSE IF ~Numeric(line.cols[2]) THEN <<e, sg>>
    ELSE LET col == Layout(line.cols)
             c == line.cols
         IN  IF ~Numeric(c[col[1]]) THEN <<e, sg>>
             ELSE LET e1 == [e EXCEPT !.RSSI = Some(float(c[col[1]]))]
                  IN  IF ~Numeric(c[col[2]]) THEN <<e1, sg>>
                      ELSE LET e2 == [e1 EXCEPT !.RSRP = Some(float(c[col[2]]))]
                           IN  IF ~Numeric(c[col[3]]) THEN <<e2, sg>>
                               ELSE LET e3 == [e2 EXCEPT !.RSRQ = Some(float(c[col[3]]))]
                                    IN  IF e3.RSRQ[1] = 0 THEN <<e3, sg>>
                                        ELSE LET e4 == [e3 EXCEPT !.power_ratio =
                                                          Some(<<e3.RSRP[1], e3.RSRQ[1]>>)]
                                             IN  <<e4, [RSSI |-> e4.RSSI,
                                                        power_ratio |-> e4.power_ratio]>>

\* The bucket insertion shared by __saveEvent and addUpperLayerPackets
Bucket(all, e) ==
    IF e.time \in DOMAIN all
    THEN [all EXCEPT ![e.time] = Append(@, e)]
    ELSE [k \in DOMAIN all \cup {e.time} |-> IF k = e.time THEN <<e>> ELSE all[k]]

\* Event.__saveEvent: TRUE when Event.current_event is put into all_events
Saves(cur) == cur # NoEvent /\ cur.event # NONE

\* The type addUpperLayerPackets gives a packet's Event
PacketTypeSwapped(p) ==
    IF ~p.is_candidate THEN "PACKET_OTHER"
    ELSE IF p.dst = ip THEN "PACKET_RCV" ELSE "PACKET_SENT"

PacketType(p) ==
    IF ~p.is_candidate THEN "PACKET_OTHER"
    ELSE IF p.dst = ip THEN "PACKET_SENT" ELSE "PACKET_RCV"

PacketEvent(p, id) == [NewEvent EXCEPT !.g_id = id, !.time = p.time, !.event = PacketType(p)]

\* The packets addUpperLayerPackets gets through: all of them, or those before
\* the first one whose time is None (the assert)
RECURSIVE Accepted(_)
Accepted(ps) ==
    IF ps = <<>> \/ Head(ps).time = NoTime THEN <<>>
    ELSE <<Head(ps)>> \o Accepted(Tail(ps))

RECURSIVE AddPackets(_, _, _)
AddPackets(all, ps, id) ==
    IF ps = <<>> THEN all
    ELSE AddPackets(Bucket(all, PacketEvent(Head(ps), id + 1)), Tail(ps), id + 1)

---------------------------------------------------------------------------
(* "Put in order"                                                          *)

Min(S) == CHOOSE x \in S : \A y \in S : x <= y
Max(S) == CHOOSE x \in S : \A y \in S : x >= y

\* Python's sorted() of the keys, descending instead of ascending
RECURSIVE ReverseSortedKeys(_)
ReverseSortedKeys(S) ==
    IF S = {} THEN <<>> ELSE <<Max(S)>> \o ReverseSortedKeys(S \ {Max(S)})

RECURSIVE sorted(_)
sorted(S) == IF S = {} THEN <<>> ELSE <<Min(S)>> \o sorted(S \ {Min(S)})

\* The value an event's state field gets, and the last_*_state carried on
FilledFromLast(value, last) == last

Filled(value, last) == IF value # NONE THEN value ELSE last

RememberRaw(value, last) == value

Remember(value, last) == IF value # NONE THEN value ELSE last

\* The loop over all_keys and over each bucket, forward-fill included
RECURSIVE ForwardFill(_, _, _)
ForwardFill(events, last_before_state, last_after_state) ==
    IF events = <<>> THEN <<>>
    ELSE LET event == Head(events)
             e == [event EXCEPT
                     !.before_state = Filled(event.before_state, last_before_state),
                     !.after_state = Filled(event.after_state, last_after_state)]
         IN  <<e>> \o ForwardFill(Tail(events),
                                  Remember(event.before_state, last_before_state),
                                  Remember(event.after_state, last_after_state))

RECURSIVE Concat(_, _)
Concat(all, keys) ==
    IF keys = <<>> THEN <<>> ELSE all[Head(keys)] \o Concat(all, Tail(keys))

PutInOrderOf(all) == ForwardFill(Concat(all, sorted(DOMAIN all)), NONE, NONE)

---------------------------------------------------------------------------
(* class Transition                                                        *)

IsPacket(ev) == ev \in PacketTypes      \* event.event.startswith("PACKET")

\* Transition.__create_dict(False, item)
create_dict(item) == [v \in distinct_events |-> item]

\* Transition.__init__ that takes no begin time
TransitionAtZero(state, time) ==
    [state |-> state, begin_time |-> 0, end_time |-> 0,
     transition |-> NONE, after_transition |-> NONE, between |-> <<>>,
     time_to_reach_first |-> create_dict(Nothing),
     time_to_reach_last |-> create_dict(Nothing),
     duplicates_first |-> create_dict(0),
     duplicates_last |-> create_dict(0),
     duplicates_all |-> create_dict(0),
     RSSI |-> Nothing, power_ratio |-> Nothing]

\* Transition.__init__
Transition(state, time) ==
    [state |-> state, begin_time |-> time, end_time |-> 0,
     transition |-> NONE, after_transition |-> NONE, between |-> <<>>,
     time_to_reach_first |-> create_dict(Nothing),
     time_to_reach_last |-> create_dict(Nothing),
     duplicates_first |-> create_dict(0),
     duplicates_last |-> create_dict(0),
     duplicates_all |-> create_dict(0),
     RSSI |-> Nothing, power_ratio |-> Nothing]

LabelReversed(before, after) == str(after) \o " -> " \o str(before)

Label(before, after) == str(before) \o " -> " \o str(after)

\* The test of Transition.update that closes the Transition
BoundaryIgnoringType(tr, event) == event.after_state # tr.state

\* The test on the state the event leaves
BoundaryOnBefore(tr, event) == event.before_state # tr.state /\ ~IsPacket(event.event)

Boundary(tr, event) == event.after_state # tr.state /\ ~IsPacket(event.event)

\* The tally of Transition.update that never merges
TallyEach(between, event) ==
    Append(between, [type |-> event.event, count |-> 1, ev |-> event])

\* The run-length tally of Transition.update
Tally(between, event) ==
    IF Len(between) > 0 /\ between[Len(between)].type = event.event
    THEN [between EXCEPT ![Len(between)].count = @ + 1]
    ELSE Append(between, [type |-> event.event, count |-> 1, ev |-> event])

\* Transition.update: the Transition after the call, and the value returned
update(tr, event) ==
    LET t1 == [tr EXCEPT !.RSSI = IF event.RSSI # Nothing THEN event.RSSI ELSE @,
                         !.power_ratio = IF event.power_ratio # Nothing
                                         THEN event.power_ratio ELSE @]
    IN  IF Boundary(t1, event)
        THEN [tr |-> [t1 EXCEPT !.after_transition = Label(event.before_state, event.after_state),
                                !.end_time = event.time],
              ret |-> FALSE]
        ELSE LET t2 == [t1 EXCEPT !.between = Tally(@, event)]
             IN  [tr |-> IF IsPacket(event.event) THEN t2
                         ELSE [t2 EXCEPT !.state = event.after_state,
                                         !.transition = IF @ = NONE
                                                        THEN Label(event.before_state, event.after_state)
                                                        ELSE @],
                  ret |-> TRUE]

\* d[k] = v of a Python dict: the key is added when missing
Put(d, k, v) == [x \in DOMAIN d \cup {k} |-> IF x = k THEN v ELSE d[x]]

\* The two offsets find_stats_and_finalize records for a between entry
OffsetFromBegin(tr, event) == event.time - tr.begin_time

OffsetFromEndNegated(tr, event) == event.time - tr.end_time

OffsetFromEnd(tr, event) == tr.end_time - event.time

\* One iteration of the loop of find_stats_and_finalize; ok is FALSE when
\* duplicates_all[subtype] += count raises KeyError
FinalizeItem(tr, item) ==
    LET subtype == item.type
        count == item.count
        event == item.ev
        first == subtype \in DOMAIN tr.time_to_reach_first
                   /\ tr.time_to_reach_first[subtype] = Nothing
        t1 == IF first
              THEN [tr EXCEPT !.time_to_reach_first[subtype] = Some(OffsetFromBegin(tr, event)),
                              !.duplicates_first[subtype] = count]
              ELSE tr
        t2 == [t1 EXCEPT !.time_to_reach_last = Put(@, subtype, Some(OffsetFromEnd(tr, event))),
                         !.duplicates_last = Put(@, subtype, count)]
    IN  IF subtype \in DOMAIN tr.duplicates_all
        THEN [tr |-> [t2 EXCEPT !.duplicates_all[subtype] = @ + count], ok |-> TRUE]
        ELSE [tr |-> t2, ok |-> FALSE]

\* Transition.find_stats_and_finalize
RECURSIVE FinalizeFrom(_, _)
FinalizeFrom(tr, i) ==
    IF i > Len(tr.between) THEN [tr |-> tr, ok |-> TRUE]
    ELSE LET r == FinalizeItem(tr, tr.between[i])
         IN  IF r.ok THEN FinalizeFrom(r.tr, i + 1) ELSE r

find_stats_and_finalize(tr) == FinalizeFrom(tr, 1)

\* "save if valid"
Valid(tr) == tr.transition # NONE /\ tr.after_transition # NONE

Name(tr) == tr.transition \o " " \o tr.after_transition

\* "save", valid or not
FileUnchecked(dict, tr) ==
    IF Name(tr) \in DOMAIN dict
    THEN [dict EXCEPT ![Name(tr)] = Append(@, tr)]
    ELSE Put(dict, Name(tr), <<tr>>)

File(dict, tr) ==
    IF ~Valid(tr) THEN dict
    ELSE IF Name(tr) \in DOMAIN dict
    THEN [dict EXCEPT ![Name(tr)] = Append(@, tr)]
    ELSE Put(dict, Name(tr), <<tr>>)

\* The scenarios of find_correlation whose label can be built from the state
\* names of this model, in the order of the elif chain.  None of the
\* occasionals of "closing" is a substring of an event type of this model.
Scenarios == <<
    [pattern |-> "connected -> closing closing ->",
     transition_type |-> "closing",
     occasionals |-> <<"EVENT_LTE_ESM_OUTGOING_MSG", "EVENT_LTE_RACH_ACCESS_RESULT",
                       "EVENT_LTE_UL_OUT_OF_SYNC", "EVENT_LTE_RACH_ACCESS_START",
                       "EVENT_LTE_EMM_TIMER_START", "EVENT_LTE_EMM_INCOMING_MSG",
                       "EVENT_LTE_CM_OUTGOING_MSG", "EVENT_LTE_RACH_RAID_MATCH",
                       "EVENT_LTE_TIMING_ADVANCE", "EVENT_LTE_ML1_PHR_REPORT",
                       "EVENT_LTE_BSR_SR_REQUEST", "EVENT_SLOTTED_MODE_OPERATION",
                       "EVENT_LTE_ESM_OUTGOING_MSG", "EVENT_SD_EVENT_ACTION",
                       "EVENT_IDLE_HANDOFF">>,
     time_matters |-> << <<STATE_CHANGE_TRIGGER, MAC_TIMER>>,
                         <<STATE_CHANGE_TRIGGER, RRC_TIMER_STATUS>>,
                         <<MAC_TIMER, RRC_TIMER_STATUS>> >>],
    [pattern |-> "CELL_PCH -> CELL_FACH CELL_FACH -> CELL_DCH",
     transition_type |-> "fach_promote",
     occasionals |-> <<"CELL_UPDATE_MSG", "MEASUREMENT_REPORT_MSG">>,
     time_matters |-> << <<"-begin-", "RADIO_BEARER_RECONFIGURATION_MSG">>,
                         <<"RADIO_BEARER_RECONFIGURATION_MSG", "RADIO_BEARER_RECONFIGURATION_COMPLETE_MSG">>,
                         <<"-begin-", "CELL_UPDATE_CONFIRM_MSG">>,
                         <<"RADIO_BEARER_RECONFIGURATION_COMPLETE_MSG", "-end-">> >>],
    [pattern |-> "CELL_DCH -> CELL_FACH CELL_FACH -> CELL_DCH",
     transition_type |-> "fach_temp",
     occasionals |-> <<>>,
     time_matters |-> << <<"-begin-", "EVENT_WCDMA_RLC_CONFIG">>,
                         <<"EVENT_WCDMA_RLC_CONFIG", "EVENT_WCDMA_RLC_CONFIG">>,
                         <<"EVENT_WCDMA_RLC_CONFIG", "-end-">>,
                         <<"RADIO_BEARER_RECONFIGURATION_MSG", "-end-">>,
                         <<"RADIO_BEARER_RECONFIGURATION_MSG", "RADIO_BEARER_RECONFIGURATION_COMPLETE_MSG">> >>],
    [pattern |-> "CELL_DCH -> CELL_FACH CELL_FACH -> CELL_PCH",
     transition_type |-> "fach_demote",
     occasionals |-> <<>>,
     time_matters |-> << <<"-begin-", "RADIO_BEARER_RECONFIGURATION_COMPLETE_MSG">>,
                         <<"PHYSICAL_CHANNEL_RECONFIGURATION_MSG", "-end-">>,
                         <<"-begin-", "EVENT_WCDMA_RLC_CONFIG">>,
                         <<"PHYSICAL_CHANNEL_RECONFIGURATION_MSG", "PHYSICAL_CHANNEL_RECONFIGURATION_COMPLETE_MSG">>,
                         <<"PHYSICAL_CHANNEL_RECONFIGURATION_COMPLETE_MSG", "-end-">> >>] >>

Suffixes == {Scenarios[i].transition_type : i \in DOMAIN Scenarios}

\* The names whose lower case contains the pattern of "closing"
ClosingNames == {Label("Connected", "Closing") \o " " \o Label("Closing", d) :
                   d \in LteStates \cup AllStates}

\* pattern in name (in name.lower() for "closing"): a name of this model
\* contains a CELL_ pattern only by being it
Recognized(name) ==
    {i \in DOMAIN Scenarios :
       IF Scenarios[i].transition_type = "closing" THEN name \in ClosingNames
       ELSE Scenarios[i].pattern = name}

Known(d, k) == k \in DOMAIN d /\ d[k] # Nothing

\* One field of the loop over time_matters
TimeField(tr, start, end) ==
    LET inter_time == tr.end_time - tr.begin_time
        first == tr.time_to_reach_first
        last == tr.time_to_reach_last
    IN  IF start = end /\ Known(first, start) /\ Known(last, end)
        THEN (inter_time - last[end][1]) - first[start][1]
        ELSE IF Known(first, start) /\ Known(first, end)
        THEN first[end][1] - first[start][1]
        ELSE IF start = "-begin-" /\ Known(first, end)
        THEN first[end][1]
        ELSE IF end = "-end-" /\ Known(last, start)
        THEN last[start][1]
        ELSE -1

\* The fields find_correlation prints last for a Transition of "closing".
\* attributes_first has the keys of duplicates_first; the attribute labels
\* of EVENT_LTE_MAC_TIMER are "Timer type" and "Action", never "Start".
ClosingFields(tr) ==
    LET first == tr.time_to_reach_first
        last == tr.time_to_reach_last
    IN  (IF Known(first, MAC_TIMER)
         THEN << first[MAC_TIMER][1] - last[MAC_TIMER][1] >> ELSE <<>>)
        \o (IF Known(first, RRC_TIMER_STATUS)
            THEN << first[RRC_TIMER_STATUS][1] - last[RRC_TIMER_STATUS][1] >> ELSE <<>>)
        \o (IF MAC_TIMER \in DOMAIN tr.duplicates_first THEN <<"0">> ELSE <<>>)

\* The line find_correlation prints for a Transition of scenario sc
Row(tr, sc) ==
    << tr.end_time - tr.begin_time >>
    \o [i \in DOMAIN sc.occasionals |->
          IF \E k \in DOMAIN tr.duplicates_all :
                 sc.occasionals[i] = k /\ tr.duplicates_all[k] > 0
          THEN "1" ELSE "0"]
    \o << tr.RSSI, tr.power_ratio >>
    \o [i \in DOMAIN sc.time_matters |->
          TimeField(tr, sc.time_matters[i][1], sc.time_matters[i][2])]
    \o (IF sc.transition_type = "closing" THEN ClosingFields(tr) ELSE <<>>)

\* Transition.find_correlation: the feature files after the call
find_correlation(files, tr, name) ==
    IF Recognized(name) = {} THEN files
    ELSE LET sc == Scenarios[Min(Recognized(name))]
         IN  [files EXCEPT ![sc.transition_type] = Append(@, Row(tr, sc))]

RECURSIVE CorrelateAll(_, _, _)
CorrelateAll(files, v, name) ==
    IF v = <<>> THEN files
    ELSE CorrelateAll(find_correlation(files, Head(v), name), Tail(v), name)

\* Transition.merge_dicts_and_print prints only; min(inter_time) raises
\* ValueError when no Transition of the group has end_time != 0
MinRaises(l) == \A i \in DOMAIN l : l[i].end_time = 0

\* "None" in k, for a name built by Name from str() of state values
Labels == {Label(b, a) : b \in AllStates \cup LteStates, a \in AllStates \cup LteStates}
HasNone(k) == k \notin {x \o " " \o y : x \in Labels, y \in Labels}

\* The order in which transition_dict.iteritems() yields the keys: fixed for
\* a given dict, not specified further
NextKey(keys) == CHOOSE k \in keys : TRUE

\* The removal of the feature files before the output loop
RemovedNot(files) == files

Removed(files) == [s \in DOMAIN files |-> <<>>]

---------------------------------------------------------------------------
(* robustnetLib.py and quartiles()                                         *)
(* A list of numbers that may hold None is a sequence of Nothing and       *)
(* Some(v).  A float of robustnetLib is <<n, d, r>>: n/d when r = 1, the   *)
(* square root of n/d when r = 2.  A value quartiles() returns is          *)
(* <<n, 4>>: n/4.                                                          *)

\* l[i] of a Python list
item(l, i) == l[i + 1]

RECURSIVE Insert(_, _)
Insert(x, l) ==
    IF l = <<>> THEN <<x>>
    ELSE IF x <= Head(l) THEN <<x>> \o l
    ELSE <<Head(l)>> \o Insert(x, Tail(l))

\* l.sort() and sorted(l) of a list of numbers
RECURSIVE Sort(_)
Sort(l) == IF l = <<>> THEN <<>> ELSE Insert(Head(l), Sort(Tail(l)))

RECURSIVE SumOf(_)
SumOf(l) == IF l = <<>> THEN 0 ELSE Head(l) + SumOf(Tail(l))

\* [x for x in li if x != None]
NotNone(li) ==
    LET Given(x) == x # Nothing
        l == SelectSeq(li, Given)
    IN  [i \in DOMAIN l |-> l[i][1]]

\* robustnetLib.meanValue
meanValue(li) ==
    LET l == NotNone(li)
    IN  IF l = <<>> THEN <<0, 1, 1>> ELSE <<SumOf(l), Len(l), 1>>

\* robustnetLib.quartileResult; int(0.05*listLen) and int(0.95*listLen) are
\* the integer parts of 5*listLen/100 and 95*listLen/100 for the lengths here
quartileResultFour(li) ==
    LET l == NotNone(li)
        listLen == Len(l)
        sorted_list == Sort(l)
    IN  IF l = <<>> THEN <<0, 0, 0, 0>>
        ELSE <<item(sorted_list, (5 * listLen) \div 100), item(sorted_list, listLen \div 4),
               item(sorted_list, listLen \div 2), item(sorted_list, (3 * listLen) \div 4),
               item(sorted_list, (95 * listLen) \div 100)>>

quartileResult(li) ==
    LET l == NotNone(li)
        listLen == Len(l)
        sorted_list == Sort(l)
    IN  IF l = <<>> THEN <<0, 0, 0, 0, 0>>
        ELSE <<item(sorted_list, (5 * listLen) \div 100), item(sorted_list, listLen \div 4),
               item(sorted_list, listLen \div 2), item(sorted_list, (3 * listLen) \div 4),
               item(sorted_list, (95 * listLen) \div 100)>>

\* The sum of (i - p/q)*(i - p/q) over l, times q*q
RECURSIVE DiffSum(_, _, _)
DiffSum(l, p, q) ==
    IF l = <<>> THEN 0
    ELSE (Head(l) * q - p) * (Head(l) * q - p) + DiffSum(Tail(l), p, q)

\* robustnetLib.stdevValue; mean is Nothing (None) or Some(float), "not mean"
\* holds for None and for 0.0
stdevValue(li, mean) ==
    LET l == NotNone(li)
        m == IF mean = Nothing \/ mean[1][1] = 0 THEN <<SumOf(l), Len(l), 1>> ELSE mean[1]
    IN  IF l = <<>> THEN <<0, 1, 1>>
        ELSE <<DiffSum(l, m[1], m[2]), m[2] * m[2] * Len(l), 2>>

\* numpy.median of a sorted list that is not empty
median(l) ==
    IF Len(l) % 2 = 1 THEN <<4 * item(l, Len(l) \div 2), 4>>
    ELSE <<2 * (item(l, Len(l) \div 2 - 1) + item(l, Len(l) \div 2)), 4>>

\* quartiles() with the weights of the two neighbours exchanged
quartilesExchanged(list) ==
    LET l == Sort(list)
        start == Len(l) \div 4
    IN  IF Len(l) = 1 THEN << <<4 * item(l, 0), 4>>, <<4 * item(l, 0), 4>> >>
        ELSE IF Len(l) % 2 = 0
        THEN << median(SubSeq(l, 1, Len(l) \div 2)),
                median(SubSeq(l, Len(l) \div 2 + 1, Len(l))) >>
        ELSE IF Len(l) % 4 = 1
        THEN << <<item(l, start - 1) * 3 + item(l, start) * 1, 4>>,
                <<item(l, start * 3) * 1 + item(l, start * 3 + 1) * 3, 4>> >>
        ELSE << <<item(l, start) * 1 + item(l, start + 1) * 3, 4>>,
                <<item(l, start * 3 + 1) * 3 + item(l, start * 3 + 2) * 1, 4>> >>

\* quartiles(): the pair it returns; l[:len(l)/2] and l[len(l)/2:] are the
\* two SubSeq
quartiles(list) ==
    LET l == Sort(list)
        start == Len(l) \div 4
    IN  IF Len(l) = 1 THEN << <<4 * item(l, 0), 4>>, <<4 * item(l, 0), 4>> >>
        ELSE IF Len(l) % 2 = 0
        THEN << median(SubSeq(l, 1, Len(l) \div 2)),
                median(SubSeq(l, Len(l) \div 2 + 1, Len(l))) >>
        ELSE IF Len(l) % 4 = 1
        THEN << <<item(l, start - 1) * 1 + item(l, start) * 3, 4>>,
                <<item(l, start * 3) * 3 + item(l, start * 3 + 1) * 1, 4>> >>
        ELSE << <<item(l, start) * 3 + item(l, start + 1) * 1, 4>>,
                <<item(l, start * 3 + 1) * 1 + item(l, start * 3 + 2) * 3, 4>> >>

---------------------------------------------------------------------------
(* The script                                                              *)

\* No statistics function is called by the runs modelled here
NoCall == [fn |-> NONE, li |-> <<>>, mean |-> Nothing]
NotCalled == [done |-> FALSE, value |-> <<>>]
Returned(v) == [done |-> TRUE, value |-> v]

\* The state of a fresh process
Fresh ==
    /\ pc = "parse"
    /\ err = NONE
    /\ lineNo = 0
    /\ current_event = NoEvent
    /\ last_state = NONE
    /\ distinct_events = {"PACKET_SENT", "PACKET_RCV"}
    /\ all_events = <<>>
    /\ sig = [RSSI |-> Nothing, power_ratio |-> Nothing]
    /\ sorted_events = <<>>
    /\ evNo = 0
    /\ transition = NONE
    /\ transition_dict = <<>>
    /\ todo = {}
    /\ g_discovered = 0
    /\ g_closed = <<>>

\* Event.addNewLine, called for one line of the trace
AddNewLine ==
    /\ pc = "parse"
    /\ lineNo < Len(traceFile)
    /\ LET line == traceFile[lineNo + 1]
           date == line.kind = "date"
           save == date /\ Saves(current_event)
           cur0 == IF date THEN getEvent(NewEvent, line) ELSE current_event
           sc == getStateChange(getTime(cur0, line), line, last_state)
           ss == getSignalStrengths(sc[1], line, sig)
       IN  /\ lineNo' = lineNo + 1
           /\ all_events' = IF save
                            THEN Bucket(all_events, [current_event EXCEPT !.g_id = g_discovered + 1])
                            ELSE all_events
           /\ distinct_events' = IF save THEN distinct_events \cup {current_event.event}
                                 ELSE distinct_events
           /\ g_discovered' = IF save THEN g_discovered + 1 ELSE g_discovered
           /\ current_event' = IF cur0 = NoEvent THEN NoEvent ELSE ss[1]
           /\ last_state' = IF cur0 = NoEvent THEN last_state ELSE sc[2]
           /\ sig' = IF cur0 = NoEvent THEN sig ELSE ss[2]
    /\ UNCHANGED <<traceFile, packetFile, featureFiles, pc, err, sorted_events, evNo,
                   transition, transition_dict, todo, g_closed, g_run, g_firstFiles, outRoot, call, result>>

\* Event.addUpperLayerPackets, after the last line of the trace
AddUpperLayerPackets ==
    /\ pc = "parse"
    /\ lineNo = Len(traceFile)
    /\ LET ok == Accepted(packetFile)
       IN  /\ all_events' = AddPackets(all_events, ok, g_discovered)
           /\ g_discovered' = g_discovered + Len(ok)
           /\ current_event' = IF packetFile = <<>> THEN current_event
                               ELSE PacketEvent(packetFile[Min({Len(ok) + 1, Len(packetFile)})],
                                                Min({g_discovered + Len(ok) + 1,
                                                     g_discovered + Len(packetFile)}))
           /\ IF Len(ok) < Len(packetFile)
              THEN pc' = "error" /\ err' = "AssertionError"
              ELSE pc' = "order" /\ err' = err
    /\ UNCHANGED <<traceFile, packetFile, featureFiles, lineNo, last_state, distinct_events,
                   sig, sorted_events, evNo, transition, transition_dict, todo, g_closed,
                   g_run, g_firstFiles, outRoot, call, result>>

\* The ordering loop, and the first Transition
PutInOrder ==
    /\ pc = "order"
    /\ sorted_events' = PutInOrderOf(all_events)
    /\ transition' = Transition("None", 0)
    /\ transition_dict' = <<>>
    /\ pc' = "segment"
    /\ UNCHANGED <<traceFile, packetFile, featureFiles, err, lineNo, current_event, last_state,
                   distinct_events, all_events, sig, evNo, todo, g_discovered, g_closed,
                   g_run, g_firstFiles, outRoot, call, result>>

\* One iteration of the segmentation loop
Segment ==
    /\ pc = "segment"
    /\ evNo < Len(sorted_events)
    /\ LET event == sorted_events[evNo + 1]
           r == update(transition, event)
           fin == find_stats_and_finalize(r.tr)
       IN  /\ evNo' = evNo + 1
           /\ IF r.ret
              THEN /\ transition' = r.tr
                   /\ UNCHANGED <<transition_dict, g_closed, pc, err>>
              ELSE IF ~fin.ok
              THEN /\ transition' = fin.tr
                   /\ pc' = "error"
                   /\ err' = "KeyError"
                   /\ UNCHANGED <<transition_dict, g_closed>>
              ELSE /\ transition_dict' = File(transition_dict, fin.tr)
                   /\ g_closed' = Append(g_closed, fin.tr)
                   /\ transition' = Transition(event.after_state, event.time)
                   /\ UNCHANGED <<pc, err>>
    /\ UNCHANGED <<traceFile, packetFile, featureFiles, lineNo, current_event, last_state,
                   distinct_events, all_events, sig, sorted_events, todo, g_discovered,
                   g_run, g_firstFiles, outRoot, call, result>>

\* After the last event: the feature files of an earlier run are removed
RemoveFeatureFiles ==
    /\ pc = "segment"
    /\ evNo = Len(sorted_events)
    /\ featureFiles' = IF outRoot THEN Removed(featureFiles) ELSE featureFiles
    /\ todo' = DOMAIN transition_dict
    /\ pc' = IF transition_dict = <<>> THEN "done" ELSE "output"
    /\ UNCHANGED <<traceFile, packetFile, err, lineNo, current_event, last_state,
                   distinct_events, all_events, sig, sorted_events, evNo, transition,
                   transition_dict, g_discovered, g_closed, g_run, g_firstFiles, outRoot, call, result>>

\* One iteration of the output loop
OutputGroup ==
    /\ pc = "output"
    /\ LET k == NextKey(todo)
           v == transition_dict[k]
       IN  IF ~HasNone(k) /\ MinRaises(v)
           THEN /\ pc' = "error"
                /\ err' = "ValueError"
                /\ UNCHANGED <<featureFiles, todo>>
           ELSE /\ featureFiles' = IF outRoot THEN CorrelateAll(featureFiles, v, k)
                                   ELSE featureFiles
                /\ todo' = todo \ {k}
                /\ pc' = IF todo' = {} THEN "done" ELSE "output"
                /\ err' = err
    /\ UNCHANGED <<traceFile, packetFile, lineNo, current_event, last_state,
                   distinct_events, all_events, sig, sorted_events, evNo, transition,
                   transition_dict, g_discovered, g_closed, g_run, g_firstFiles, outRoot, call, result>>

\* The script is started again on the same files
Rerun ==
    /\ pc \in {"done", "error"}
    /\ g_run = 1
    /\ g_run' = 2
    /\ g_firstFiles' = featureFiles
    /\ pc' = "parse"
    /\ err' = NONE
    /\ lineNo' = 0
    /\ current_event' = NoEvent
    /\ last_state' = NONE
    /\ distinct_events' = {"PACKET_SENT", "PACKET_RCV"}
    /\ all_events' = <<>>
    /\ sig' = [RSSI |-> Nothing, power_ratio |-> Nothing]
    /\ sorted_events' = <<>>
    /\ evNo' = 0
    /\ transition' = NONE
    /\ transition_dict' = <<>>
    /\ todo' = {}
    /\ g_discovered' = 0
    /\ g_closed' = <<>>
    /\ UNCHANGED <<traceFile, packetFile, featureFiles, outRoot, call, result>>

Next == AddNewLine \/ AddUpperLayerPackets \/ PutInOrder \/ Segment
          \/ RemoveFeatureFiles \/ OutputGroup

NextRerun == Next \/ Rerun

\* The files an earlier run may have left
StaleRow(sc) ==
    <<99>> \o [i \in DOMAIN sc.occasionals |-> "0"] \o <<Nothing, Nothing>>
           \o [i \in DOMAIN sc.time_matters |-> -1]

NoFiles == [s \in Suffixes |-> <<>>]
StaleFiles == [s \in Suffixes |->
                 << StaleRow(Scenarios[CHOOSE i \in DOMAIN Scenarios :
                                         Scenarios[i].transition_type = s]) >>]

InitWith(traces, packetLists, files, roots) ==
    /\ traceFile \in traces
    /\ packetFile \in packetLists
    /\ featureFiles \in files
    /\ outRoot \in roots
    /\ g_run = 1
    /\ g_firstFiles = NoFiles
    /\ call = NoCall
    /\ result = NotCalled
    /\ Fresh

\* Any trace of up to MaxRecords records, any list of up to MaxPackets packets
Init == InitWith(TracesFrom(MaxRecords, 0, PlainRecords({NONE, RLC_CONFIG})
                                            \cup LteRecords(States)
                                            \cup WcdmaRecords(States)),
                 SeqsUpTo(Packets, MaxPackets), {NoFiles}, {TRUE})

Spec == Init /\ [][Next]_vars

\* A trace that files one Transition under a recognized label
FilingTrace ==
    <<DateLine(WCDMA_STATE, 0), WcdmaPayload("CELL_DCH", "CELL_FACH"),
      DateLine(RLC_CONFIG, 0),
      DateLine(WCDMA_STATE, 1), WcdmaPayload("CELL_FACH", "CELL_DCH"),
      DateLine(NONE, 1)>>

\* Short traces and any list of up to MaxPacketList packets
InitPackets ==
    InitWith(TracesFrom(1, 0, PlainRecords({NONE, RLC_CONFIG}) \cup LteRecords(States))
               \cup {FilingTrace},
             SeqsUpTo(Packets, MaxPacketList), {NoFiles}, {TRUE})

SpecPackets == InitPackets /\ [][Next]_vars

\* Two runs on the same files, with or without an output root, over whatever
\* an earlier run left
InitRerun ==
    InitWith(TracesFrom(MaxRecords, 0, PlainRecords({RLC_CONFIG}) \cup WcdmaRecords(States)),
             SeqsUpTo(Packets, MaxPackets), {NoFiles, StaleFiles}, BOOLEAN)

SpecRerun == InitRerun /\ [][NextRerun]_vars

\* The scenario of three state changes: to A at t=0, to B at t=100, to C at
\* t=250, three events of type X and one of type Y in between the first two
\* (Y is the y-th of the four), one of type Z between the last two.  An event
\* of a packet type comes from the packet list, the others from the trace;
\* a last date line follows the third state change.
A == "CELL_PCH"
B == "CELL_FACH"
C == "CELL_DCH"
ScenarioTypes == {RLC_CONFIG, L1_STATE} \cup PacketTypes
ScenarioChoices ==
    {q \in [X : ScenarioTypes, Y : ScenarioTypes, Z : ScenarioTypes, y : 1..4] : q.X # q.Y}

SlotType(q, i) == IF i = q.y THEN q.Y ELSE q.X
SlotTime(i) == 10 * i

PacketOfType(type, t) ==
    IF type = "PACKET_OTHER" THEN Packet(t, FALSE, ip)
    ELSE IF type = "PACKET_SENT" THEN Packet(t, TRUE, ip)
    ELSE Packet(t, TRUE, "10.0.0.1")

RECURSIVE SlotLines(_, _)
SlotLines(q, i) ==
    IF i > 4 THEN <<>>
    ELSE (IF IsPacket(SlotType(q, i)) THEN <<>> ELSE <<DateLine(SlotType(q, i), SlotTime(i))>>)
           \o SlotLines(q, i + 1)

RECURSIVE SlotPackets(_, _)
SlotPackets(q, i) ==
    IF i > 4 THEN <<>>
    ELSE (IF IsPacket(SlotType(q, i)) THEN <<PacketOfType(SlotType(q, i), SlotTime(i))>> ELSE <<>>)
           \o SlotPackets(q, i + 1)

ScenarioTrace(q) ==
    <<DateLine(LTE_STATE_CHANGE, 0), LtePayload(A)>>
      \o SlotLines(q, 1)
      \o <<DateLine(LTE_STATE_CHANGE, 100), LtePayload(B)>>
      \o (IF IsPacket(q.Z) THEN <<>> ELSE <<DateLine(q.Z, 150)>>)
      \o <<DateLine(LTE_STATE_CHANGE, 250), LtePayload(C)>>
      \o <<DateLine(NONE, 300)>>

ScenarioPackets(q) ==
    SlotPackets(q, 1) \o (IF IsPacket(q.Z) THEN <<PacketOfType(q.Z, 150)>> ELSE <<>>)

InitScenario ==
    /\ \E q \in ScenarioChoices :
          /\ traceFile = ScenarioTrace(q)
          /\ packetFile = ScenarioPackets(q)
    /\ featureFiles = NoFiles
    /\ outRoot = TRUE
    /\ g_run = 1
    /\ g_firstFiles = NoFiles
    /\ call = NoCall
    /\ result = NotCalled
    /\ Fresh

SpecScenario == InitScenario /\ [][Next]_vars

\* The signal lines: every combination of texts in the five fields read, and
\* one line of 9 fields
Fields == {2, 3, 4, 6, 7}
SignalCols ==
    {c \in [Fields -> DOMAIN FloatOf \cup {"x"}] :
        /\ c[2] \in {"1", "-1", "x"}
        /\ c[3] \in {"-70", "x"}
        /\ c[4] \in {"-90", "x"}
        /\ c[6] \in {"-10", "0", "x"}
        /\ c[7] \in {"-10", "0", "x"}}
GoodCols == (2 :> "1") @@ (3 :> "-70") @@ (4 :> "-90") @@ (6 :> "-10") @@ (7 :> "-10")
SignalLines == {SignalLine(10, c) : c \in SignalCols} \cup {SignalLine(9, GoodCols)}

\* The trace that files one Transition, with the lines s0 before the first
\* record, s1 after the first record and s2 after the second
SignalTrace(s0, s1, s2) ==
    s0 \o <<DateLine(WCDMA_STATE, 0), WcdmaPayload("CELL_DCH", "CELL_FACH")>>
       \o s1 \o <<DateLine(RLC_CONFIG, 0)>>
       \o s2 \o <<DateLine(WCDMA_STATE, 1), WcdmaPayload("CELL_FACH", "CELL_DCH"),
                   DateLine(NONE, 1)>>

InitSignal ==
    InitWith({SignalTrace(s0, s1, s2) : s0 \in {<<>>, <<SignalLine(10, GoodCols)>>},
                                        s1 \in SeqsUpTo(SignalLines, 1),
                                        s2 \in SeqsUpTo(SignalLines, 1)},
             {<<>>}, {NoFiles}, {TRUE})

SpecSignal == InitSignal /\ [][Next]_vars

\* A span in state "Closing": the state changes to Connected and to Closing,
\* the plain records of the types mid, the state change to Idle Camped; the
\* time of a record is its place in the trace, starting at t
RECURSIVE PlainAt(_, _)
PlainAt(types, t) ==
    IF types = <<>> THEN <<>>
    ELSE <<DateLine(Head(types), t)>> \o PlainAt(Tail(types), t + 1)

ClosingSpan(mid, t) ==
    <<DateLine(LTE_STATE_CHANGE, t), LtePayload("Connected"),
      DateLine(LTE_STATE_CHANGE, t + 1), LtePayload("Closing")>>
      \o PlainAt(mid, t + 2)
      \o <<DateLine(LTE_STATE_CHANGE, t + 2 + Len(mid)), LtePayload("Idle Camped")>>

\* One or two such spans, and a last date line
ClosingMids == SeqsUpTo({MAC_TIMER, RRC_TIMER_STATUS, STATE_CHANGE_TRIGGER}, MaxMid) \ {<<>>}
ClosingTraces ==
    {ClosingSpan(m1, 1) \o (IF m2 = <<>> THEN <<>> ELSE ClosingSpan(m2, 4 + Len(m1)))
                        \o <<DateLine(NONE, 8 + Len(m1) + Len(m2))>> :
       m1 \in ClosingMids, m2 \in ClosingMids \cup {<<>>}}

InitClosing == InitWith(ClosingTraces \cup {FilingTrace}, {<<>>}, {NoFiles}, {TRUE})

SpecClosing == InitClosing /\ [][Next]_vars

\* The calls of the statistics functions: lists of up to MaxStat entries that
\* may be None, with or without a mean; lists of 1 to MaxList numbers, and
\* the lists of test_quartile
scriptVars == <<traceFile, packetFile, featureFiles, pc, err, lineNo, current_event,
                last_state, distinct_events, all_events, sig, sorted_events, evNo,
                transition, transition_dict, todo, g_discovered, g_closed, g_run,
                g_firstFiles, outRoot>>

Entries == {Nothing, Some(0), Some(1), Some(3)}
Means == {Nothing, Some(<<0, 1, 1>>), Some(<<3, 2, 1>>)}
Range(n) == [i \in 1..n |-> i]
QuartileLists ==
    (SeqsUpTo({1, 2, 4}, MaxList) \ {<<>>})
      \cup {Range(5), Range(6), Range(7), Range(8), <<5, 1, 4, 2, 3>>}
StatCalls ==
    {[fn |-> f, li |-> l, mean |-> Nothing] :
       f \in {"meanValue", "quartileResult"}, l \in SeqsUpTo(Entries, MaxStat)}
    \cup {[fn |-> "stdevValue", li |-> l, mean |-> m] :
            l \in SeqsUpTo(Entries, MaxStat), m \in Means}
QuartileCalls == {[fn |-> "quartiles", li |-> l, mean |-> Nothing] : l \in QuartileLists}

CallMeanValue ==
    /\ call.fn = "meanValue" /\ ~result.done
    /\ result' = Returned(meanValue(call.li))
    /\ UNCHANGED <<scriptVars, call>>

CallStdevValue ==
    /\ call.fn = "stdevValue" /\ ~result.done
    /\ result' = Returned(stdevValue(call.li, call.mean))
    /\ UNCHANGED <<scriptVars, call>>

CallQuartileResult ==
    /\ call.fn = "quartileResult" /\ ~result.done
    /\ result' = Returned(quartileResult(call.li))
    /\ UNCHANGED <<scriptVars, call>>

\* quartiles(l) sorts l in place
CallQuartiles ==
    /\ call.fn = "quartiles" /\ ~result.done
    /\ result' = Returned(quartiles(call.li))
    /\ call' = [call EXCEPT !.li = Sort(@)]
    /\ UNCHANGED scriptVars

NextStats == CallMeanValue \/ CallStdevValue \/ CallQuartileResult \/ CallQuartiles

InitStats ==
    /\ (call \in StatCalls \/ call \in QuartileCalls)
    /\ result = NotCalled
    /\ traceFile = <<>>
    /\ packetFile = <<>>
    /\ featureFiles = NoFiles
    /\ outRoot = FALSE
    /\ g_run = 1
    /\ g_firstFiles = NoFiles
    /\ Fresh

SpecStats == InitStats /\ [][NextStats]_vars

\* Records whose lines hold up to MaxStamps matches of the time pattern: a
\* date line, with or without a line of text after it; a trace is one such
\* record and a last date line, or the trace that files a Transition
Stamps == [h : {0, 1}, m : {0, 1}, s : {0, 1}, ms : {0, 1}]
TextStamps == {[h |-> 0, m |-> 0, s |-> 0, ms |-> 5], [h |-> 1, m |-> 2, s |-> 3, ms |-> 4]}
StampedRecords ==
    {<<StampedLine(TRUE, RLC_CONFIG, a)>> \o b :
       a \in SeqsUpTo(Stamps, MaxStamps),
       b \in {<<>>} \cup {<<StampedLine(FALSE, NONE, c)>> : c \in SeqsUpTo(TextStamps, MaxStamps)}}

InitTime ==
    InitWith({r \o <<DateLine(NONE, 0)>> : r \in StampedRecords} \cup {FilingTrace},
             {<<>>}, {NoFiles}, {TRUE})

SpecTime == InitTime /\ [][Next]_vars

\* Longer traces of plain records and WCDMA state changes, with at most one
\* packet: several Transitions are closed and filed
InitSegment ==
    InitWith(TracesFrom(MaxSegRecords, 0, PlainRecords({RLC_CONFIG}) \cup WcdmaRecords(States)),
             SeqsUpTo({Packet(0, TRUE, ip), Packet(0, FALSE, ip)}, 1),
             {NoFiles}, {TRUE})

SpecSegment == InitSegment /\ [][Next]_vars

---------------------------------------------------------------------------
(* Properties                                                              *)

\* The ordering loop has run: sorted_events is what the segmenter is handed
Ordered == pc \in {"segment", "output", "done"} \/ err \in {"KeyError", "ValueError"}

\* Every event of all_events, bucket after bucket
AllEvents == Concat(all_events, sorted(DOMAIN all_events))

\* C1: the merged sequence handed to the segmenter holds every discovered
\* event, is non-decreasing in timestamp, and two events with the same
\* timestamp are in the order in which they were discovered (g_id: trace
\* events in file order, then packet events in packet-list order).
C1_MergedInOrder ==
    Ordered =>
        /\ Len(sorted_events) = g_discovered
        /\ \A i, j \in DOMAIN sorted_events :
              i < j => /\ sorted_events[i].time <= sorted_events[j].time
                       /\ sorted_events[i].time = sorted_events[j].time
                            => sorted_events[i].g_id < sorted_events[j].g_id

\* A merged sequence in which a packet event discovered later comes before
\* a trace event, and two events share a timestamp
C1_Witness ==
    /\ Ordered
    /\ \E i, j \in DOMAIN sorted_events :
          i < j /\ sorted_events[i].g_id > sorted_events[j].g_id
    /\ \E i, j \in DOMAIN sorted_events :
          i < j /\ sorted_events[i].time = sorted_events[j].time

\* C3: for every Transition that has been closed and finalized,
\* end_time >= begin_time and each time_to_reach_first/last value is None
\* or lies in [0, end_time - begin_time].
InSpan(tr, d) ==
    \A T \in DOMAIN d :
        d[T] = Nothing \/ (0 <= d[T][1] /\ d[T][1] <= tr.end_time - tr.begin_time)

C3_OffsetsInSpan ==
    \A n \in DOMAIN g_closed :
        LET tr == g_closed[n]
        IN  /\ tr.end_time >= tr.begin_time
            /\ InSpan(tr, tr.time_to_reach_first)
            /\ InSpan(tr, tr.time_to_reach_last)

\* A finalized Transition with an event type first reached after its begin
\* and another last seen before its end
C3_Witness ==
    \E n \in DOMAIN g_closed :
        LET tr == g_closed[n]
        IN  /\ \E T \in DOMAIN tr.time_to_reach_first :
                  tr.time_to_reach_first[T] # Nothing /\ tr.time_to_reach_first[T][1] > 0
            /\ \E T \in DOMAIN tr.time_to_reach_last :
                  tr.time_to_reach_last[T] # Nothing /\ tr.time_to_reach_last[T][1] > 0

\* The number of events a between list stands for
RECURSIVE Tallied(_)
Tallied(between) ==
    IF between = <<>> THEN 0 ELSE Head(between).count + Tallied(Tail(between))

\* C4: a step of the segmentation loop on an event of type PACKET_SENT,
\* PACKET_RCV or PACKET_OTHER does not close the open Transition and changes
\* neither its state nor its entry label, whatever states the event carries;
\* the event is tallied into the between list.
C4_PacketNeverCloses ==
    [][ (pc = "segment" /\ evNo < Len(sorted_events) /\ evNo' = evNo + 1
           /\ IsPacket(sorted_events[evNo + 1].event))
        => /\ pc' = "segment"
           /\ g_closed' = g_closed
           /\ transition_dict' = transition_dict
           /\ transition'.state = transition.state
           /\ transition'.transition = transition.transition
           /\ transition'.begin_time = transition.begin_time
           /\ transition'.after_transition = NONE
           /\ Tallied(transition'.between) = Tallied(transition.between) + 1
           /\ transition'.between[Len(transition'.between)].type
                = sorted_events[evNo + 1].event ]_vars

\* The open Transition has folded a packet event whose after_state is not
\* the Transition's state
C4_Witness ==
    /\ pc = "segment"
    /\ \E i \in DOMAIN transition.between :
          /\ IsPacket(transition.between[i].type)
          /\ transition.between[i].ev.after_state # transition.state

\* C5: applying the forward-fill pass to the sequence it produced changes no
\* before_state and no after_state.
C5_ForwardFillIdempotent ==
    Ordered => ForwardFill(sorted_events, NONE, NONE) = sorted_events

\* The pass filled a field of an event that is followed by another event
C5_Witness ==
    /\ Ordered
    /\ \E i \in DOMAIN sorted_events :
          /\ i < Len(sorted_events)
          /\ sorted_events[i].after_state # AllEvents[i].after_state

\* The typed records of the trace: the date lines with a type token
TypedRecords == {i \in DOMAIN traceFile :
                   traceFile[i].kind = "date" /\ traceFile[i].ev # NONE}

TraceEvents == {i \in DOMAIN AllEvents : ~IsPacket(AllEvents[i].event)}

\* C7: once the trace is read, the event collection holds exactly one event
\* for each typed record of the trace, wherever the record sits.
C7_OneEventPerTypedRecord ==
    pc # "parse" => Cardinality(TraceEvents) = Cardinality(TypedRecords)

\* The Transitions created so far by the segmentation
Created == {g_closed[n] : n \in DOMAIN g_closed} \cup {transition}

KeySets(tr) == {DOMAIN tr.time_to_reach_first, DOMAIN tr.time_to_reach_last,
                DOMAIN tr.duplicates_first, DOMAIN tr.duplicates_last,
                DOMAIN tr.duplicates_all}

\* C9: every event type of the merged sequence is a key of each per-event-type
\* map of every Transition created, and all Transitions have the same keys.
C9_EveryTypeIsAKey ==
    Ordered =>
        \A tr \in Created : \A keys \in KeySets(tr) :
            /\ \A i \in DOMAIN sorted_events : sorted_events[i].event \in keys
            /\ \A tr2 \in Created : KeySets(tr2) = {keys}

\* C10: when every packet record carries a timestamp, the run raises no error.
C10_OnlyMissingTimeIsFatal ==
    (\A i \in DOMAIN packetFile : packetFile[i].time # NoTime) => pc # "error"

\* The run is over
RunOver == pc \in {"done", "error"}

\* The segmentation loop is over, or was ended by an error
Segmented == pc \in {"output", "done", "error"}

\* The choice of X, Y, Z the input files were built from
Scenario == CHOOSE q \in ScenarioChoices :
                traceFile = ScenarioTrace(q) /\ packetFile = ScenarioPackets(q)

FirstX == Min({i \in 1..4 : SlotType(Scenario, i) = Scenario.X})

Filed(name) == IF name \in DOMAIN transition_dict THEN transition_dict[name] ELSE <<>>

Count(tr, T) == IF T \in DOMAIN tr.duplicates_all THEN tr.duplicates_all[T] ELSE 0

\* The result the scenario is to give: two filed Transitions with the counts
\* and the offset of the first X
ScenarioResult ==
    LET n1 == Label(NONE, A) \o " " \o Label(A, B)
        n2 == Label(A, B) \o " " \o Label(B, C)
        q == Scenario
    IN  /\ DOMAIN transition_dict = {n1, n2}
        /\ Len(Filed(n1)) = 1
        /\ Len(Filed(n2)) = 1
        /\ Count(Filed(n1)[1], q.X) = 3
        /\ Count(Filed(n1)[1], q.Y) = 1
        /\ q.X \in DOMAIN Filed(n1)[1].time_to_reach_first
        /\ Filed(n1)[1].time_to_reach_first[q.X]
             = Some(SlotTime(FirstX) - Filed(n1)[1].begin_time)
        /\ Count(Filed(n2)[1], q.Z) = 1

\* C2: in the scenario A (t=0), B (t=100), C (t=250) with three X and one Y
\* in the first span and one Z in the second, each of a trace type or a
\* packet type, segmentation files exactly two Transitions: "None -> A" /
\* "A -> B" with duplicates_all[X] = 3, duplicates_all[Y] = 1 and
\* time_to_reach_first[X] the offset of the first X, and "A -> B" / "B -> C"
\* with duplicates_all[Z] = 1.
C2_ScenarioYieldsTwo == Segmented => ScenarioResult

\* The scenario gives that result when X, Y and Z are types of trace records
ScenarioOfTraceTypes ==
    (Segmented /\ {Scenario.X, Scenario.Y, Scenario.Z} \cap PacketTypes = {})
        => ScenarioResult

\* C6: when the script has run twice on the same trace, packet list and
\* output root, the feature files after the second run are those after the
\* first: no row of an earlier run is left in them.
C6_RerunSameFiles ==
    (g_run = 2 /\ RunOver) => featureFiles = g_firstFiles

\* A second run that completed and wrote a row
C6_Witness ==
    /\ g_run = 2
    /\ pc = "done"
    /\ outRoot
    /\ \E s \in Suffixes : featureFiles[s] # <<>>

\* The events addUpperLayerPackets is to give the packets of time t: one for
\* each packet before the first one without a time, in packet-list order
ExpectedPacketTypes(t) ==
    LET bad == {i \in DOMAIN packetFile : packetFile[i].time = NoTime}
        n == IF bad = {} THEN Len(packetFile) ELSE Min(bad) - 1
        AtT(p) == p.time = t
        ps == SelectSeq(SubSeq(packetFile, 1, n), AtT)
    IN  [i \in DOMAIN ps |->
           IF ~ps[i].is_candidate THEN "PACKET_OTHER"
           ELSE IF ps[i].dst = ip THEN "PACKET_SENT" ELSE "PACKET_RCV"]

PacketEventsAt(t) ==
    LET OfPacket(e) == IsPacket(e.event)
        es == IF t \in DOMAIN all_events THEN SelectSeq(all_events[t], OfPacket) ELSE <<>>
    IN  [i \in DOMAIN es |-> es[i].event]

\* C8: once addUpperLayerPackets has run, each packet with a time has exactly
\* one Event, in the bucket of the packet's time and of type PACKET_OTHER
\* (not a candidate), PACKET_SENT (candidate, destination = ip) or PACKET_RCV;
\* a packet without a time ends the run with the assertion and has no Event.
C8_OneEventPerPacket ==
    pc # "parse" =>
        /\ \A t \in Times \cup {NoTime} : PacketEventsAt(t) = ExpectedPacketTypes(t)
        /\ \A t \in DOMAIN all_events : \A i \in DOMAIN all_events[t] :
              all_events[t][i].time = t
        /\ (\E i \in DOMAIN packetFile : packetFile[i].time = NoTime)
              <=> err = "AssertionError"

\* Two packets of the same time have given a PACKET_SENT and a PACKET_RCV event
C8_Witness ==
    /\ pc = "order"
    /\ \E t \in Times : \E i, j \in DOMAIN PacketEventsAt(t) :
          PacketEventsAt(t)[i] = "PACKET_SENT" /\ PacketEventsAt(t)[j] = "PACKET_RCV"

\* The state known before line n of the trace: the new state of the latest
\* payload line before it, None when there is none
RECURSIVE KnownBefore(_)
KnownBefore(n) ==
    IF n <= 1 THEN NONE
    ELSE IF traceFile[n - 1].kind \in {"lte", "wcdma"} THEN traceFile[n - 1].new
    ELSE KnownBefore(n - 1)

\* The payload line of an LTE state-change record has just been read
LtePayloadRead == pc = "parse" /\ lineNo > 0 /\ traceFile[lineNo].kind = "lte"

\* C11: after the payload line of an LTE state-change record, the event's
\* after_state is the captured state; when the captured state equals the
\* previously known state, before_state is None and the last known state is
\* unchanged; when it differs, before_state is the previously known state and
\* the last known state becomes the captured state.
C11_LteStateChange ==
    LtePayloadRead =>
        LET captured == traceFile[lineNo].new
            known == KnownBefore(lineNo)
        IN  /\ current_event.event = LTE_STATE_CHANGE
            /\ current_event.after_state = captured
            /\ last_state = captured
            /\ current_event.before_state = IF captured = known THEN NONE ELSE known

\* An LTE payload line that names the state already known
C11_Witness ==
    /\ LtePayloadRead
    /\ KnownBefore(lineNo) = traceFile[lineNo].new

\* C11 as stated: when the captured state equals the previously known state,
\* both before_state and after_state of the event are None.
C11_SameStateLeavesNone ==
    (LtePayloadRead /\ KnownBefore(lineNo) = traceFile[lineNo].new) =>
        /\ current_event.before_state = NONE
        /\ current_event.after_state = NONE
        /\ last_state = KnownBefore(lineNo)

\* Parsing the line fails: a field of the chosen layout is not a number, or
\* RSRQ is 0
ParseFails(line) ==
    LET c == line.cols
    IN  \/ ~Numeric(c[2])
        \/ float(c[2]) >= 0 /\ (~Numeric(c[3]) \/ ~Numeric(c[4]) \/ ~Numeric(c[7])
                                    \/ float(c[7]) = 0)
        \/ float(c[2]) < 0 /\ (~Numeric(c[3]) \/ ~Numeric(c[6]) \/ float(c[6]) = 0)

\* Event.addNewLine reads a signal line of at least 10 fields whose parsing
\* fails, while there is a current event
FailingSignalLine ==
    /\ pc = "parse" /\ lineNo < Len(traceFile) /\ lineNo' = lineNo + 1
    /\ current_event # NoEvent
    /\ traceFile[lineNo + 1].kind = "signal"
    /\ traceFile[lineNo + 1].n >= 10
    /\ ParseFails(traceFile[lineNo + 1])

\* C12: when the parsing of a signal line of at least 10 fields fails, the
\* current event's RSSI and power_ratio and the process-wide Event.RSSI and
\* Event.power_ratio are what they were before the line.
C12_FailureLeavesSnapshot ==
    [][ FailingSignalLine =>
          /\ current_event'.RSSI = current_event.RSSI
          /\ current_event'.power_ratio = current_event.power_ratio
          /\ sig' = sig ]_vars

\* What a failing line does leave alone: the process-wide signal and the
\* event's power_ratio
FailureLeavesShared ==
    [][ FailingSignalLine =>
          /\ current_event'.power_ratio = current_event.power_ratio
          /\ sig' = sig ]_vars

\* The closed and finalized Transitions that are valid and of the given name,
\* in the order in which they were closed
ValidClosed(name) ==
    LET Named(tr) == Valid(tr) /\ Name(tr) = name
    IN  SelectSeq(g_closed, Named)

\* The sum of the values of a per-event-type map of counts
RECURSIVE Sum(_)
Sum(d) ==
    IF DOMAIN d = {} THEN 0
    ELSE LET k == CHOOSE x \in DOMAIN d : TRUE
         IN  d[k] + Sum([x \in DOMAIN d \ {k} |-> d[x]])

\* C13: every Transition in transition_dict has an entry label and an exit
\* label, has been closed (end_time and after_transition set by a boundary
\* event) and finalized (its counts are those of its between list), and is
\* stored under transition + " " + after_transition; the open Transition,
\* the last one included, is not in transition_dict.
C13_FiledAreValid ==
    Ordered =>
        /\ \A name \in DOMAIN transition_dict :
              /\ transition_dict[name] # <<>>
              /\ transition_dict[name] = ValidClosed(name)
              /\ \A i \in DOMAIN transition_dict[name] :
                    LET tr == transition_dict[name][i]
                    IN  /\ tr.transition # NONE
                        /\ tr.after_transition # NONE
                        /\ name = tr.transition \o " " \o tr.after_transition
                        /\ Sum(tr.duplicates_all) = Tallied(tr.between)
        /\ \A name \in DOMAIN transition_dict : \A i \in DOMAIN transition_dict[name] :
              transition_dict[name][i] # transition
        /\ err = NONE => transition.after_transition = NONE

\* The input has ended with a Transition filed and the last Transition, which
\* has an entry label, still open
C13_Witness ==
    /\ pc = "done"
    /\ transition_dict # <<>>
    /\ transition.transition # NONE

\* C14: all rows of a scenario's feature file have the same number of fields,
\* whichever event types occurred in the Transitions they were printed for.
C14_FixedFieldCount ==
    \A s \in Suffixes : \A i, j \in DOMAIN featureFiles[s] :
        Len(featureFiles[s][i]) = Len(featureFiles[s][j])

\* The rows of the scenarios other than "closing" have the fields of the
\* scenario's lists, and no more
FixedOutsideClosing ==
    \A n \in DOMAIN Scenarios :
        LET sc == Scenarios[n]
        IN  sc.transition_type # "closing" =>
              \A i \in DOMAIN featureFiles[sc.transition_type] :
                  Len(featureFiles[sc.transition_type][i])
                    = 1 + Len(sc.occasionals) + 2 + Len(sc.time_matters)

\* The sorted list the call of quartiles() was given
Given == call.li

\* The quartiles of the third method for a sorted list x of n = 4k+1 or 4k+3
\* numbers x[1] .. x[n], as <<4*Q1, 4*Q3>>
ThirdMethod(x) ==
    LET n == Len(x)
        k == n \div 4
    IN  IF n % 4 = 1
        THEN <<x[k] + 3 * x[k + 1], 3 * x[3 * k + 1] + x[3 * k + 2]>>
        ELSE <<3 * x[k + 1] + x[k + 2], x[3 * k + 2] + 3 * x[3 * k + 3]>>

\* The median of a sorted list, times 4
Median4(x) ==
    LET n == Len(x)
    IN  IF n % 2 = 1 THEN 4 * x[(n + 1) \div 2] ELSE 2 * (x[n \div 2] + x[n \div 2 + 1])

QuartilesReturned == call.fn = "quartiles" /\ result.done

\* C15: quartiles(l) returns (x, x) for a single element x, (1.75, 4.25) for
\* [1,2,3,4,5], for even sizes the medians of the first and of the second
\* half of the sorted list, and for sizes 5 and 7 the weighted values of the
\* third method.
C15_Quartiles ==
    QuartilesReturned =>
        LET x == Given
            n == Len(x)
            q == result.value
        IN  /\ q[1][2] = 4 /\ q[2][2] = 4
            /\ n = 1 => (q[1][1] = 4 * x[1] /\ q[2][1] = 4 * x[1])
            /\ x = <<1, 2, 3, 4, 5>> => (q[1][1] = 7 /\ q[2][1] = 17)
            /\ (n > 1 /\ n % 2 = 0) =>
                  /\ q[1][1] = Median4(SubSeq(x, 1, n \div 2))
                  /\ q[2][1] = Median4(SubSeq(x, n \div 2 + 1, n))
            /\ (n > 1 /\ n % 2 = 1) => <<q[1][1], q[2][1]>> = ThirdMethod(x)

\* quartiles() has returned for the list of 1 to 5 and has left it sorted
C15_Witness ==
    /\ QuartilesReturned
    /\ Given = <<1, 2, 3, 4, 5>>
    /\ result.value = << <<7, 4>>, <<17, 4>> >>

\* C15 as stated: quartiles([1,2,3,4,5]) is (1.5, 4.5).
C15_FiveGivesOneAndAHalf ==
    (QuartilesReturned /\ Given = <<1, 2, 3, 4, 5>>)
        => result.value = << <<6, 4>>, <<18, 4>> >>

\* The list of the call has no usable value: it is empty or holds only None
NoUsableValue == \A i \in DOMAIN call.li : call.li[i] = Nothing

\* C16: for the empty list and for a list of None entries only, meanValue
\* returns 0.0, stdevValue returns 0.0 (whatever mean it is given) and
\* quartileResult returns five zeros.
C16_NoUsableValues ==
    (result.done /\ call.fn # "quartiles" /\ NoUsableValue) =>
        result.value = IF call.fn = "quartileResult" THEN <<0, 0, 0, 0, 0>>
                       ELSE <<0, 1, 1>>

\* quartileResult has returned for a list of two None entries
C16_Witness ==
    /\ result.done
    /\ call.fn = "quartileResult"
    /\ call.li = <<Nothing, Nothing>>

\* The value of a state field of the i-th event after forward-fill, from the
\* values raw[1] .. raw[i] the events carried: its own when not None, else
\* that of the latest earlier event that carried one, else None
Inherited(raw, i) ==
    LET earlier == {j \in 1..(i - 1) : raw[j] # NONE}
    IN  IF raw[i] # NONE THEN raw[i]
        ELSE IF earlier = {} THEN NONE
        ELSE raw[Max(earlier)]

\* C17: after forward-fill, before_state and after_state of each event of
\* the merged sequence are, each on its own, the value the event carried or,
\* when it carried None, the value carried by the latest earlier event of the
\* merged order with a value for that field; None when there is no such event.
C17_ForwardFill ==
    Ordered =>
        LET before == [i \in DOMAIN AllEvents |-> AllEvents[i].before_state]
            after == [i \in DOMAIN AllEvents |-> AllEvents[i].after_state]
        IN  /\ Len(sorted_events) = Len(AllEvents)
            /\ \A i \in DOMAIN sorted_events :
                  /\ sorted_events[i].before_state = Inherited(before, i)
                  /\ sorted_events[i].after_state = Inherited(after, i)
                  /\ sorted_events[i].g_id = AllEvents[i].g_id

\* An event got its after_state from an event that is not the one just before
\* it, and still has no before_state
C17_Witness ==
    /\ Ordered
    /\ \E i \in DOMAIN sorted_events :
          /\ i > 2
          /\ AllEvents[i].after_state = NONE
          /\ AllEvents[i - 1].after_state = NONE
          /\ sorted_events[i].after_state # NONE
          /\ sorted_events[i].before_state = NONE

\* A step of the segmentation loop, and the event it takes
SegmentStep == pc = "segment" /\ evNo < Len(sorted_events) /\ evNo' = evNo + 1
Taken == sorted_events[evNo + 1]

\* The event taken is a boundary for the open Transition
Closes == Taken.after_state # transition.state /\ Taken.event \notin PacketTypes

\* The step has closed the open Transition: it has left the loop's variable
\* for g_closed, or finalization has raised and it is still there
StepClosed == Len(g_closed') = Len(g_closed) + 1 \/ pc' = "error"
ClosedNow == IF pc' = "error" THEN transition' ELSE g_closed'[Len(g_closed')]

\* C18: a step of the segmentation loop closes the open Transition exactly
\* when the event's after_state differs from the Transition's state and the
\* event is not of a packet type; the closed Transition then has
\* after_transition "<before_state> -> <after_state>" of the event, end_time
\* the event's time and the between list it had, and the Transition opened
\* next has an empty between list; otherwise the event is tallied.
C18_BoundaryStep ==
    [][ SegmentStep =>
          /\ StepClosed <=> Closes
          /\ Closes =>
                /\ ClosedNow.after_transition
                     = str(Taken.before_state) \o " -> " \o str(Taken.after_state)
                /\ ClosedNow.end_time = Taken.time
                /\ ClosedNow.between = transition.between
                /\ pc' # "error" => transition'.between = <<>>
          /\ ~Closes =>
                /\ transition'.after_transition = NONE
                /\ Tallied(transition'.between) = Tallied(transition.between) + 1 ]_vars

\* A Transition that had folded events has just been closed by an event that
\* carries both states, and a Transition has been opened
C18_Witness ==
    /\ pc = "segment"
    /\ evNo > 0
    /\ sorted_events[evNo].before_state # NONE
    /\ transition.between = <<>>
    /\ g_closed # <<>>
    /\ g_closed[Len(g_closed)].between # <<>>
    /\ g_closed[Len(g_closed)].end_time = sorted_events[evNo].time
    /\ g_closed[Len(g_closed)].end_time > g_closed[Len(g_closed)].begin_time

\* The Transitions in the order in which they were opened: the closed ones
\* and the one of the loop's variable
Chain == g_closed \o <<transition>>

\* C19: when a boundary event closes the open Transition, the Transition
\* opened next has the event's after_state as state and the event's time as
\* begin_time, filed or not; each Transition begins at the end_time of the
\* Transition closed before it, in a state that differs from that one's.
C19_NextTransition ==
    /\ [][ (SegmentStep /\ Closes /\ pc' # "error") =>
              /\ transition'.state = Taken.after_state
              /\ transition'.begin_time = Taken.time
              /\ transition'.end_time = 0 ]_vars
    /\ [](Ordered =>
             \A n \in 1..(Len(Chain) - 1) :
                 /\ Chain[n + 1].begin_time = Chain[n].end_time
                 /\ Chain[n + 1].state # Chain[n].state)

\* A Transition that was filed and one that was not have each been followed
\* by a Transition, the later one after time 0
C19_Witness ==
    /\ pc = "segment"
    /\ \E n, m \in DOMAIN g_closed :
          /\ Valid(g_closed[n])
          /\ ~Valid(g_closed[m])
    /\ transition.begin_time > 0

\* The events of sorted_events[1..n] span by span, from the boundary rule
\* alone: a boundary event ends a span and is in none; spans is the list of
\* the spans ended, cur the span that is open, state its Transition's state
RECURSIVE SpansOf(_)
SpansOf(n) ==
    IF n = 0 THEN [spans |-> <<>>, cur |-> <<>>, state |-> "None"]
    ELSE LET r == SpansOf(n - 1)
             e == sorted_events[n]
         IN  IF e.after_state # r.state /\ e.event \notin PacketTypes
             THEN [spans |-> Append(r.spans, r.cur), cur |-> <<>>, state |-> e.after_state]
             ELSE [r EXCEPT !.cur = Append(@, e)]

AllSpans == LET r == SpansOf(evNo) IN Append(r.spans, r.cur)

\* The place in its span of the first event of the i-th run of a between list
RECURSIVE RunStart(_, _)
RunStart(between, i) ==
    IF i = 1 THEN 1 ELSE RunStart(between, i - 1) + between[i - 1].count

\* between is the run-length encoding of the events of span
Encodes(between, span) ==
    /\ \A i \in DOMAIN between :
          /\ between[i].count >= 1
          /\ i > 1 => between[i].type # between[i - 1].type
          /\ RunStart(between, i) + between[i].count - 1 <= Len(span)
          /\ \A k \in 0..(between[i].count - 1) :
                span[RunStart(between, i) + k].event = between[i].type
          /\ between[i].ev = span[RunStart(between, i)]
    /\ Tallied(between) = Len(span)

\* C20: the between list of every Transition, open or closed, is the
\* run-length encoding of the events folded into it, in order: adjacent
\* entries differ in type, every count is at least 1, the counts add up to
\* the number of events folded, and the event of an entry is the first of
\* its run.
C20_BetweenIsRunLength ==
    Ordered =>
        \A n \in DOMAIN Chain : Encodes(Chain[n].between, AllSpans[n])

\* A between list of two entries, the first one for a run of two events
C20_Witness ==
    /\ pc = "segment"
    /\ Len(transition.between) = 2
    /\ transition.between[1].count = 2
    /\ AllSpans[Len(Chain)] # <<>>

\* The entries of a between list that are of type T, and the sum of their counts
EntriesOf(tr, T) == {i \in DOMAIN tr.between : tr.between[i].type = T}

RECURSIVE CountOf(_, _)
CountOf(between, T) ==
    IF between = <<>> THEN 0
    ELSE (IF Head(between).type = T THEN Head(between).count ELSE 0)
           + CountOf(Tail(between), T)

\* The value of key T of a per-event-type map is v
Holds(d, T, v) == T \in DOMAIN d /\ d[T] = v

\* The per-event-type maps of tr are those of its between list
FinalizedFor(tr, T) ==
    LET es == EntriesOf(tr, T)
        f == tr.between[Min(es)]
        l == tr.between[Max(es)]
    IN  IF es # {}
        THEN /\ Holds(tr.time_to_reach_first, T, Some(f.ev.time - tr.begin_time))
             /\ Holds(tr.duplicates_first, T, f.count)
             /\ Holds(tr.time_to_reach_last, T, Some(tr.end_time - l.ev.time))
             /\ Holds(tr.duplicates_last, T, l.count)
             /\ Holds(tr.duplicates_all, T, CountOf(tr.between, T))
        ELSE /\ Holds(tr.time_to_reach_first, T, Nothing)
             /\ Holds(tr.time_to_reach_last, T, Nothing)
             /\ Holds(tr.duplicates_first, T, 0)
             /\ Holds(tr.duplicates_last, T, 0)
             /\ Holds(tr.duplicates_all, T, 0)

TypesOf(tr) == {tr.between[i].type : i \in DOMAIN tr.between}
                 \cup DOMAIN tr.duplicates_all

\* The Transitions closed so far: those finalized, and the one whose
\* finalization raised
ClosedSoFar == {g_closed[n] : n \in DOMAIN g_closed}
                 \cup (IF err = "KeyError" THEN {transition} ELSE {})

\* C21: for every closed Transition and every event type T: with an entry of
\* type T in between, time_to_reach_first[T] is the time of the event of the
\* first such entry minus begin_time, duplicates_first[T] that entry's count,
\* time_to_reach_last[T] is end_time minus the time of the event of the last
\* such entry, duplicates_last[T] that entry's count, and duplicates_all[T]
\* the sum of the counts of the entries of type T; without an entry the
\* offsets are None and the counts 0.
C21_Finalization ==
    \A tr \in ClosedSoFar : \A T \in TypesOf(tr) : FinalizedFor(tr, T)

\* The same for the Transitions whose finalization did not raise
FinalizedWhenNoError ==
    \A n \in DOMAIN g_closed : \A T \in TypesOf(g_closed[n]) : FinalizedFor(g_closed[n], T)

\* A finalized Transition with two entries of one type and one of another
\* type in between
FinalizedTwoRuns ==
    \E n \in DOMAIN g_closed : \E T \in TypesOf(g_closed[n]) :
        /\ Cardinality(EntriesOf(g_closed[n], T)) = 2
        /\ g_closed[n].end_time > g_closed[n].begin_time

\* The first line of the record that line n of the trace belongs to
RECURSIVE RecordStart(_)
RecordStart(n) == IF n <= 1 \/ traceFile[n].kind = "date" THEN n ELSE RecordStart(n - 1)

\* The sum over the lines from..to of the trace of the leftmost match of each
\* line, and of all matches of each line
RECURSIVE SumOfFirst(_, _)
SumOfFirst(from, to) ==
    IF from > to THEN 0
    ELSE (IF MatchValues(traceFile[to]) = <<>> THEN 0 ELSE MatchValues(traceFile[to])[1])
           + SumOfFirst(from, to - 1)

RECURSIVE SumOfMatches(_, _)
SumOfMatches(from, to) ==
    IF from > to THEN 0
    ELSE SumOfValues(MatchValues(traceFile[to])) + SumOfMatches(from, to - 1)

\* Lines of a record have been read
InRecord == pc = "parse" /\ lineNo > 0 /\ current_event # NoEvent

\* C22: the timestamp of an Event is the sum, over the lines of its record
\* read so far, of the value hours*3,600,000 + minutes*60,000 + seconds*1,000
\* + milliseconds of the leftmost H:MM:SS.mmm match of the line; lines
\* without a match add nothing, and the Event is saved with that timestamp.
C22_TimeOfFirstMatches ==
    /\ InRecord => current_event.time = SumOfFirst(RecordStart(lineNo), lineNo)
    /\ \A t \in DOMAIN all_events : \A i \in DOMAIN all_events[t] : all_events[t][i].time = t

\* A record of two lines, each with two matches, has been read
C22_Witness ==
    /\ InRecord
    /\ lineNo = 2
    /\ traceFile[2].kind = "text"
    /\ Len(MatchValues(traceFile[1])) = 2
    /\ Len(MatchValues(traceFile[2])) = 2
    /\ current_event.time > 3600 * 1000

\* C22 as stated: the timestamp is the sum of the values of all matches of
\* the record's lines, several on one line included.
C22_TimeOfAllMatches ==
    InRecord => current_event.time = SumOfMatches(RecordStart(lineNo), lineNo)

\* C23: the state of a Transition stays the one it was opened with: a step of
\* the segmentation loop that folds the event leaves the state of the open
\* Transition as it was, the folded event being of a packet type or having
\* that state as after_state; a step that closes the Transition leaves its
\* state as it was too; and every entry of a non-packet type in a between
\* list holds an event whose after_state is the Transition's state.
C23_StateIsConstant ==
    /\ [][ SegmentStep =>
             IF StepClosed
             THEN ClosedNow.state = transition.state
             ELSE /\ transition'.state = transition.state
                  /\ Taken.event \notin PacketTypes => Taken.after_state = transition.state ]_vars
    /\ [](pc \in {"segment", "error"} =>
             \A n \in DOMAIN Chain : \A i \in DOMAIN Chain[n].between :
                Chain[n].between[i].type \notin PacketTypes
                   => Chain[n].between[i].ev.after_state = Chain[n].state)

\* A Transition opened in a state of the radio has folded an event of a
\* non-packet type and a packet event
C23_Witness ==
    /\ pc = "segment"
    /\ g_closed # <<>>
    /\ transition.state \in States
    /\ \E i \in DOMAIN transition.between : transition.between[i].type \notin PacketTypes
    /\ \E i \in DOMAIN transition.between : transition.between[i].type \in PacketTypes

\* The Transition is in a list of transition_dict
IsFiled(tr) ==
    \E name \in DOMAIN transition_dict :
       \E i \in DOMAIN transition_dict[name] : transition_dict[name][i] = tr

\* An event of a non-packet type was folded into the Transition
FoldedNonPacket(tr) == \E i \in DOMAIN tr.between : tr.between[i].type \notin PacketTypes

\* The number of Transitions in the lists of transition_dict
RECURSIVE FiledCount(_)
FiledCount(dict) ==
    IF DOMAIN dict = {} THEN 0
    ELSE LET k == CHOOSE x \in DOMAIN dict : TRUE
         IN  Len(dict[k]) + FiledCount([x \in DOMAIN dict \ {k} |-> dict[x]])

\* C24: a closed Transition is in transition_dict exactly when an event of a
\* non-packet type was folded into it; one that folded packet events only,
\* or nothing, has no entry label and is left out, and so is the initial
\* Transition of state "None".
C24_FiledIffFolded ==
    /\ \A tr \in ClosedSoFar :
          /\ IsFiled(tr) <=> FoldedNonPacket(tr)
          /\ ~FoldedNonPacket(tr) => tr.transition = NONE
    /\ \A tr \in ClosedSoFar : tr.state = "None" => ~IsFiled(tr)

\* The same of the Transitions whose finalization has not raised, with the
\* number of filed Transitions
FiledIffFoldedWhenNoError ==
    /\ \A n \in DOMAIN g_closed :
          /\ IsFiled(g_closed[n]) <=> FoldedNonPacket(g_closed[n])
          /\ ~FoldedNonPacket(g_closed[n]) => g_closed[n].transition = NONE
          /\ g_closed[n].state = "None" => ~IsFiled(g_closed[n])
    /\ FiledCount(transition_dict)
          = Cardinality({n \in DOMAIN g_closed : FoldedNonPacket(g_closed[n])})

\* A Transition opened by a state change has folded a packet event only, was
\* closed by the next state change, and is left out
PacketsOnlyLeftOut ==
    \E n \in DOMAIN g_closed :
       /\ n > 1
       /\ g_closed[n].between # <<>>
       /\ ~FoldedNonPacket(g_closed[n])
       /\ ~IsFiled(g_closed[n])
       /\ g_closed[n].after_transition # NONE

====
